---- MODULE Spec2Model ----
(***************************************************************************)
(* Model of llm/causallm/finetune_generation.py: main() as a sequential    *)
(* state machine.  The argument bundles are fixed at start-up; pc is the   *)
(* position of main() in its body; every call into the framework (model    *)
(* loading, trainer, quantization helpers) is recorded in `calls`, tagged  *)
(* with the phase that made it.  Framework calls are opaque and return     *)
(* normally; the only failures are the raise statements of main().         *)
(***************************************************************************)
EXTENDS Naturals, Sequences, FiniteSets, TLC

\* ------------------------------------------------------------- bounds
\* tensor_parallel_degree ranges over 1..MaxTP
MaxTP == 2
\* number of examples in each dataset split
DsLen == 2

VARIABLES
    quant_args,        \* [do_ptq, do_qat, shift, smooth]
    model_args,        \* [use_flash_attention, prefix_tuning, lora, lora_path]
    data_args,         \* [dataset_name_or_path]
    training_args,     \* [do_train, do_eval, fp16_opt_level, fp16, bf16, tensor_parallel_degree]
    pc,                \* position in main()
    err,               \* the exception main() died with ("none" while running)
    dtype,             \* local dtype ("unbound" before line 62)
    model,             \* local model: [loaded, base_model_prefix, wrappers, use_flash_attention, trainable]
    tokenizer,         \* [loaded, pad_token]
    train_ds,          \* local train_ds (<<>> before it is loaded)
    dev_ds,            \* local dev_ds
    ptq_ds,            \* local ptq_ds
    ptq_json,          \* what os.path.exists(.../ptq.json) answered ("unchecked" before line 234)
    ptq_dataloader,    \* the dataset the PTQ dataloader was built on
    ptq_model_config,  \* local ptq_model_config ("unbound" until line 246)
    trainer,           \* [built, model, training, train_dataset, eval_dataset]
    calls,             \* sequence of [phase, call]: the framework calls made so far
    logger,            \* sequence of logged notices
    saved              \* persisted artifacts, a set of [phase, what]

vars == <<quant_args, model_args, data_args, training_args, pc, err, dtype, model,
          tokenizer, train_ds, dev_ds, ptq_ds, ptq_json, ptq_dataloader,
          ptq_model_config, trainer, calls, logger, saved>>

argvars == <<quant_args, model_args, data_args, training_args>>

\* ------------------------------------------------------------- values
None == "None"
Unbound == "unbound"

Families == {"llama", "gpt", "bloom"}
OptLevels == {"O1", "O2"}

NoModel == [loaded |-> FALSE, base_model_prefix |-> None, wrappers |-> <<>>,
            use_flash_attention |-> FALSE, trainable |-> "all"]

NoTrainer == [built |-> FALSE, model |-> NoModel, training |-> TRUE,
              train_dataset |-> <<>>, eval_dataset |-> <<>>]

Call(phase, name) == [phase |-> phase, call |-> name]

\* load_dataset(...): the DsLen raw records of one split (where the split comes
\* from, local json or the registry, does not change what main() does with it)
load_dataset(split) ==
    [i \in 1..DsLen |-> [split |-> split, idx |-> i, converted |-> FALSE]]

\* ds.map(partial(trans_func, ...)): a new dataset, every record converted
\* (is_test only picks the format of the converted record)
MapDs(ds) ==
    [i \in 1..Len(ds) |-> [ds[i] EXCEPT !.converted = TRUE]]

\* variant: the check looks at the innermost wrapper instead of the outermost
IsLoRAModel_innermost(m) == Len(m.wrappers) > 0 /\ m.wrappers[1] = "LoRAModel"

\* isinstance(m, LoRAModel): the outermost wrapper decides
IsLoRAModel(m) == Len(m.wrappers) > 0 /\ m.wrappers[Len(m.wrappers)] = "LoRAModel"

\* ------------------------------------------------------------- Init
Init ==
    /\ quant_args \in [do_ptq : BOOLEAN, do_qat : BOOLEAN, shift : BOOLEAN, smooth : BOOLEAN]
    /\ model_args \in [use_flash_attention : BOOLEAN, prefix_tuning : BOOLEAN,
                       lora : BOOLEAN, lora_path : {None, "lora_ckpt"}]
    /\ data_args \in [dataset_name_or_path : {None, "data_dir"}]
    /\ training_args \in [do_train : BOOLEAN, do_eval : BOOLEAN, fp16_opt_level : OptLevels,
                          fp16 : BOOLEAN, bf16 : BOOLEAN, tensor_parallel_degree : 1..MaxTP]
    /\ pc = "start"
    /\ err = "none"
    /\ dtype = Unbound
    /\ model = NoModel
    /\ tokenizer = [loaded |-> FALSE, pad_token |-> None]
    /\ train_ds = <<>>
    /\ dev_ds = <<>>
    /\ ptq_ds = <<>>
    /\ ptq_json = "unchecked"
    /\ ptq_dataloader = <<>>
    /\ ptq_model_config = Unbound
    /\ trainer = NoTrainer
    /\ calls = <<>>
    /\ logger = <<>>
    /\ saved = {}

\* raise: main() ends with exception e, nothing else changes
Raise(e) ==
    /\ pc' = "error"
    /\ err' = e

\* ------------------------------------------------------------- set-up
\* variant: the mutual-exclusion check is missing
PtqQatConflict_unchecked == FALSE

PtqQatConflict == quant_args.do_ptq /\ quant_args.do_qat

CheckPtqQat ==
    /\ pc = "start"
    /\ IF PtqQatConflict
         THEN Raise("ValueError: PTQ and QAT can not work at the same time.")
         ELSE pc' = "set_device" /\ err' = err
    /\ UNCHANGED <<argvars, dtype, model, tokenizer, train_ds, dev_ds, ptq_ds, ptq_json,
                   ptq_dataloader, ptq_model_config, trainer, calls, logger, saved>>

\* everything but pc, err and the named variables is left alone
SetDevice ==
    /\ pc = "set_device"
    /\ calls' = Append(calls, Call("setup", "paddle.set_device"))
    /\ pc' = "dtype"
    /\ UNCHANGED <<argvars, err, dtype, model, tokenizer, train_ds, dev_ds, ptq_ds, ptq_json,
                   ptq_dataloader, ptq_model_config, trainer, logger, saved>>

\* variant: the fp16 branch is tested before the do_ptq branch
DtypePolicy_fp16_first(fp16_opt_level, do_ptq, fp16, bf16) ==
    IF fp16_opt_level = "O2"
      THEN IF fp16 THEN "float16"
           ELSE IF do_ptq THEN "float32"
           ELSE IF bf16 THEN "bfloat16"
           ELSE "error"
      ELSE "float32"

\* lines 62-72: the dtype cascade; "error" stands for the raise of line 70
DtypePolicy(fp16_opt_level, do_ptq, fp16, bf16) ==
    IF fp16_opt_level = "O2"
      THEN IF do_ptq THEN "float32"
           ELSE IF fp16 THEN "float16"
           ELSE IF bf16 THEN "bfloat16"
           ELSE "error"
      ELSE "float32"

ResolveDtype ==
    /\ pc = "dtype"
    /\ LET d == DtypePolicy(training_args.fp16_opt_level, quant_args.do_ptq,
                            training_args.fp16, training_args.bf16)
       IN IF d = "error"
            THEN Raise("ValueError: Please specific dtype: --fp16 or --bf16") /\ dtype' = dtype
            ELSE dtype' = d /\ pc' = "load_model" /\ err' = err
    /\ UNCHANGED <<argvars, model, tokenizer, train_ds, dev_ds, ptq_ds, ptq_json,
                   ptq_dataloader, ptq_model_config, trainer, calls, logger, saved>>

\* lines 74-80: the family of the checkpoint is whatever model_name_or_path holds
\* (the lm_shift_labels patch of lines 83-84 touches a config field nothing else reads)
LoadModel ==
    /\ pc = "load_model"
    /\ \E family \in Families :
         model' = [NoModel EXCEPT !.loaded = TRUE, !.base_model_prefix = family]
    /\ calls' = Append(calls, Call("setup", "AutoModelForCausalLM.from_pretrained"))
    /\ pc' = "flash_attention"
    /\ UNCHANGED <<argvars, err, dtype, tokenizer, train_ds, dev_ds, ptq_ds, ptq_json,
                   ptq_dataloader, ptq_model_config, trainer, logger, saved>>

FlashAttentionUnsupported ==
    model_args.use_flash_attention /\ model.base_model_prefix \notin {"llama", "gpt"}

\* lines 87-93
FlashAttention ==
    /\ pc = "flash_attention"
    /\ IF FlashAttentionUnsupported
         THEN Raise("NotImplementedError: Only llama and gpt support flash_attention.")
              /\ model' = model
         ELSE /\ model' = [model EXCEPT !.use_flash_attention = model_args.use_flash_attention]
              /\ pc' = "tokenizer"
              /\ err' = err
    /\ UNCHANGED <<argvars, dtype, tokenizer, train_ds, dev_ds, ptq_ds, ptq_json,
                   ptq_dataloader, ptq_model_config, trainer, calls, logger, saved>>

\* lines 96-99
LoadTokenizer ==
    /\ pc = "tokenizer"
    /\ tokenizer' = [loaded |-> TRUE,
                     pad_token |-> IF model.base_model_prefix = "llama" THEN "unk_token"
                                   ELSE "pad_token"]
    /\ calls' = Append(calls, Call("setup", "AutoTokenizer.from_pretrained"))
    /\ pc' = "dataset"
    /\ UNCHANGED <<argvars, err, dtype, model, train_ds, dev_ds, ptq_ds, ptq_json,
                   ptq_dataloader, ptq_model_config, trainer, logger, saved>>

\* variant: the dataset path is used without the None check
DatasetMissing_unchecked == FALSE

DatasetMissing == data_args.dataset_name_or_path = None

\* lines 101-121
LoadDataset ==
    /\ pc = "dataset"
    /\ IF DatasetMissing
         THEN /\ Raise("ValueError: Please specific dataset name or path")
              /\ UNCHANGED <<train_ds, dev_ds, calls>>
         ELSE /\ train_ds' = MapDs(load_dataset("train"))
              /\ dev_ds' = MapDs(load_dataset("dev"))
              /\ calls' = Append(calls, Call("setup", "load_dataset"))
              /\ pc' = "prefix_tuning"
              /\ err' = err
    /\ UNCHANGED <<argvars, dtype, model, tokenizer, ptq_ds, ptq_json,
                   ptq_dataloader, ptq_model_config, trainer, logger, saved>>

\* lines 123-140
PrefixTuning ==
    /\ pc = "prefix_tuning"
    /\ IF model_args.prefix_tuning
         THEN /\ model' = [model EXCEPT !.wrappers = Append(@, "PrefixModelForCausalLM"),
                                        !.trainable = "prefix"]
              /\ calls' = Append(calls, Call("setup", "PrefixModelForCausalLM"))
         ELSE UNCHANGED <<model, calls>>
    /\ pc' = "lora"
    /\ UNCHANGED <<argvars, err, dtype, tokenizer, train_ds, dev_ds, ptq_ds, ptq_json,
                   ptq_dataloader, ptq_model_config, trainer, logger, saved>>

\* lines 142-157
LoRA ==
    /\ pc = "lora"
    /\ IF model_args.lora
         THEN /\ model' = [model EXCEPT !.wrappers = Append(@, "LoRAModel"),
                                        !.trainable = "lora"]
              /\ calls' = Append(calls,
                                 Call("setup", IF model_args.lora_path = None
                                                 THEN "LoRAModel"
                                                 ELSE "LoRAModel.from_pretrained"))
         ELSE UNCHANGED <<model, calls>>
    /\ pc' = "trainer"
    /\ UNCHANGED <<argvars, err, dtype, tokenizer, train_ds, dev_ds, ptq_ds, ptq_json,
                   ptq_dataloader, ptq_model_config, trainer, logger, saved>>

\* lines 185-201
CreateTrainer ==
    /\ pc = "trainer"
    /\ trainer' = [built |-> TRUE, model |-> model, training |-> TRUE,
                   train_dataset |-> train_ds, eval_dataset |-> dev_ds]
    /\ calls' = Append(calls, Call("setup", "CausalLMTrainer"))
    /\ pc' = "train"
    /\ UNCHANGED <<argvars, err, dtype, model, tokenizer, train_ds, dev_ds, ptq_ds, ptq_json,
                   ptq_dataloader, ptq_model_config, logger, saved>>

\* ------------------------------------------------------------- phases
\* line 204
TrainRequested == training_args.do_train

\* variant: QAT is gated on do_train as well
QatRequested_after_train == quant_args.do_qat /\ training_args.do_train

\* line 212
QatRequested == quant_args.do_qat

\* variant: the guard lets two devices through
QatMultiDevice_off_by_one == training_args.tensor_parallel_degree > 2

\* line 213
QatMultiDevice == training_args.tensor_parallel_degree > 1

\* line 225
PtqRequested == quant_args.do_ptq

\* variant: evaluation is gated on the training flag
EvalRequested_do_train == training_args.do_train

\* line 257
EvalRequested == training_args.do_eval

\* variant: the config is fetched for the shift pass only
NeedPtqModelConfig_shift_only == quant_args.shift

\* line 245
NeedPtqModelConfig == quant_args.shift \/ quant_args.smooth

\* variant: the trainer state is not saved
PersistCalls_no_state(phase) ==
    <<Call(phase, "trainer.save_model"), Call(phase, "trainer.log_metrics"),
      Call(phase, "trainer.save_metrics")>>

\* save_model, log_metrics, save_metrics, save_state of one phase
PersistCalls(phase) ==
    <<Call(phase, "trainer.save_model"), Call(phase, "trainer.log_metrics"),
      Call(phase, "trainer.save_metrics"), Call(phase, "trainer.save_state")>>

PersistArtifacts(phase) ==
    {[phase |-> phase, what |-> w] : w \in {"model", "metrics", "trainer_state"}}

\* lines 204-205
Train ==
    /\ pc = "train"
    /\ IF TrainRequested
         THEN /\ calls' = Append(calls, Call("train", "trainer.train"))
              /\ pc' = "train_persist"
         ELSE /\ calls' = calls
              /\ pc' = "qat"
    /\ UNCHANGED <<argvars, err, dtype, model, tokenizer, train_ds, dev_ds, ptq_ds, ptq_json,
                   ptq_dataloader, ptq_model_config, trainer, logger, saved>>

\* lines 206-209
TrainPersist ==
    /\ pc = "train_persist"
    /\ calls' = calls \o PersistCalls("train")
    /\ saved' = saved \cup PersistArtifacts("train")
    /\ pc' = "qat"
    /\ UNCHANGED <<argvars, err, dtype, model, tokenizer, train_ds, dev_ds, ptq_ds, ptq_json,
                   ptq_dataloader, ptq_model_config, trainer, logger>>

\* lines 212-217
Qat ==
    /\ pc = "qat"
    /\ IF ~QatRequested
         THEN /\ pc' = "ptq"
              /\ UNCHANGED <<err, trainer, calls>>
         ELSE IF QatMultiDevice
           THEN /\ Raise("NotImplementedError: Only support qat on single gpu.")
                /\ UNCHANGED <<trainer, calls>>
           ELSE /\ trainer' = [trainer EXCEPT !.model.wrappers = Append(@, "QAT")]
                /\ calls' = Append(calls, Call("qat", "create_qat_model"))
                /\ pc' = "qat_train"
                /\ err' = err
    /\ UNCHANGED <<argvars, dtype, model, tokenizer, train_ds, dev_ds, ptq_ds, ptq_json,
                   ptq_dataloader, ptq_model_config, logger, saved>>

\* line 218
QatTrain ==
    /\ pc = "qat_train"
    /\ calls' = Append(calls, Call("qat", "trainer.train"))
    /\ pc' = "qat_persist"
    /\ UNCHANGED <<argvars, err, dtype, model, tokenizer, train_ds, dev_ds, ptq_ds, ptq_json,
                   ptq_dataloader, ptq_model_config, trainer, logger, saved>>

\* lines 219-222
QatPersist ==
    /\ pc = "qat_persist"
    /\ calls' = calls \o PersistCalls("qat")
    /\ saved' = saved \cup PersistArtifacts("qat")
    /\ pc' = "ptq"
    /\ UNCHANGED <<argvars, err, dtype, model, tokenizer, train_ds, dev_ds, ptq_ds, ptq_json,
                   ptq_dataloader, ptq_model_config, trainer, logger>>

\* lines 225-232
Ptq ==
    /\ pc = "ptq"
    /\ IF ~PtqRequested
         THEN /\ pc' = "eval"
              /\ UNCHANGED <<err, trainer, calls>>
         ELSE IF IsLoRAModel(model)
           THEN /\ Raise("NotImplementedError: PTQ strategy not supported for LoRA model.")
                /\ UNCHANGED <<trainer, calls>>
           ELSE /\ trainer' = [trainer EXCEPT !.training = FALSE]
                /\ calls' = Append(calls, Call("ptq", "trainer.model.eval"))
                /\ pc' = "ptq_dataset"
                /\ err' = err
    /\ UNCHANGED <<argvars, dtype, model, tokenizer, train_ds, dev_ds, ptq_ds, ptq_json,
                   ptq_dataloader, ptq_model_config, logger, saved>>

\* variant: the training split is loaded again, unconverted
PtqFallbackDs_raw == load_dataset("train")

\* line 240: the calibration set when there is no ptq.json
PtqFallbackDs == train_ds

PtqNotice == "Not found ptq.json. Set train dataset to PTQ dataset path."

\* lines 234-243: the file system answers os.path.exists(.../ptq.json) either way
PtqDataset ==
    /\ pc = "ptq_dataset"
    /\ \E found \in BOOLEAN :
         IF found
           THEN /\ ptq_json' = "present"
                /\ ptq_ds' = MapDs(load_dataset("ptq"))
                /\ calls' = Append(calls, Call("ptq", "load_dataset"))
                /\ logger' = logger
           ELSE /\ ptq_json' = "absent"
                /\ ptq_ds' = PtqFallbackDs
                /\ calls' = calls
                /\ logger' = Append(logger, PtqNotice)
    /\ pc' = "ptq_dataloader"
    /\ UNCHANGED <<argvars, err, dtype, model, tokenizer, train_ds, dev_ds,
                   ptq_dataloader, ptq_model_config, trainer, saved>>

\* lines 244-246
PtqDataloader ==
    /\ pc = "ptq_dataloader"
    /\ ptq_dataloader' = ptq_ds
    /\ IF NeedPtqModelConfig
         THEN /\ ptq_model_config' = "ptq_model_config"
              /\ calls' = calls \o <<Call("ptq", "trainer.get_ptq_dataloader"),
                                     Call("ptq", "get_ptq_model_config")>>
         ELSE /\ ptq_model_config' = ptq_model_config
              /\ calls' = Append(calls, Call("ptq", "trainer.get_ptq_dataloader"))
    /\ pc' = "shift"
    /\ UNCHANGED <<argvars, err, dtype, model, tokenizer, train_ds, dev_ds, ptq_ds, ptq_json,
                   trainer, logger, saved>>

\* one calibration pass: it reads the local ptq_model_config, which python
\* refuses (UnboundLocalError) when line 246 never assigned it
CalibrationPass(flag, name, next) ==
    IF ~flag
      THEN /\ pc' = next
           /\ UNCHANGED <<err, calls>>
      ELSE IF ptq_model_config = Unbound
        THEN /\ Raise("UnboundLocalError: ptq_model_config")
             /\ calls' = calls
        ELSE /\ calls' = Append(calls, Call("ptq", name))
             /\ pc' = next
             /\ err' = err

\* lines 248-249
ApplyShift ==
    /\ pc = "shift"
    /\ CalibrationPass(quant_args.shift, "apply_shift", "smooth")
    /\ UNCHANGED <<argvars, dtype, model, tokenizer, train_ds, dev_ds, ptq_ds, ptq_json,
                   ptq_dataloader, ptq_model_config, trainer, logger, saved>>

\* lines 251-252
ApplySmooth ==
    /\ pc = "smooth"
    /\ CalibrationPass(quant_args.smooth, "apply_smooth", "apply_ptq")
    /\ UNCHANGED <<argvars, dtype, model, tokenizer, train_ds, dev_ds, ptq_ds, ptq_json,
                   ptq_dataloader, ptq_model_config, trainer, logger, saved>>

\* line 254
ApplyPtq ==
    /\ pc = "apply_ptq"
    /\ calls' = Append(calls, Call("ptq", "apply_ptq"))
    /\ pc' = "eval"
    /\ UNCHANGED <<argvars, err, dtype, model, tokenizer, train_ds, dev_ds, ptq_ds, ptq_json,
                   ptq_dataloader, ptq_model_config, trainer, logger, saved>>

\* lines 257-259
Evaluate ==
    /\ pc = "eval"
    /\ IF EvalRequested
         THEN calls' = calls \o <<Call("eval", "trainer.evaluate"),
                                  Call("eval", "trainer.log_metrics")>>
         ELSE calls' = calls
    /\ pc' = "done"
    /\ UNCHANGED <<argvars, err, dtype, model, tokenizer, train_ds, dev_ds, ptq_ds, ptq_json,
                   ptq_dataloader, ptq_model_config, trainer, logger, saved>>

Next ==
    \/ CheckPtqQat
    \/ SetDevice
    \/ ResolveDtype
    \/ LoadModel
    \/ FlashAttention
    \/ LoadTokenizer
    \/ LoadDataset
    \/ PrefixTuning
    \/ LoRA
    \/ CreateTrainer
    \/ Train
    \/ TrainPersist
    \/ Qat
    \/ QatTrain
    \/ QatPersist
    \/ Ptq
    \/ PtqDataset
    \/ PtqDataloader
    \/ ApplyShift
    \/ ApplySmooth
    \/ ApplyPtq
    \/ Evaluate

Spec == Init /\ [][Next]_vars

\* ------------------------------------------------------------- properties
\* the error messages of the raise statements
ConflictError == "ValueError: PTQ and QAT can not work at the same time."
DtypeError == "ValueError: Please specific dtype: --fp16 or --bf16"
DatasetError == "ValueError: Please specific dataset name or path"
QatDeviceError == "NotImplementedError: Only support qat on single gpu."
PtqLoRAError == "NotImplementedError: PTQ strategy not supported for LoRA model."
UnboundError == "UnboundLocalError: ptq_model_config"

IsPrefix(a, b) == Len(a) <= Len(b) /\ a = SubSeq(b, 1, Len(a))

CallsIn(phase) == SelectSeq(calls, LAMBDA c : c.phase = phase)
PhaseCalls == SelectSeq(calls, LAMBDA c : c.phase # "setup")
Made(phase, name) == \E i \in 1..Len(calls) : calls[i] = [phase |-> phase, call |-> name]
Count(phase, name) ==
    Cardinality({i \in 1..Len(calls) : calls[i] = [phase |-> phase, call |-> name]})

PhaseRank(phase) ==
    CASE phase = "setup" -> 0
      [] phase = "train" -> 1
      [] phase = "qat" -> 2
      [] phase = "ptq" -> 3
      [] phase = "eval" -> 4

\* what each phase calls when it runs to its end, written out from the listing
TrainScript ==
    <<[phase |-> "train", call |-> "trainer.train"],
      [phase |-> "train", call |-> "trainer.save_model"],
      [phase |-> "train", call |-> "trainer.log_metrics"],
      [phase |-> "train", call |-> "trainer.save_metrics"],
      [phase |-> "train", call |-> "trainer.save_state"]>>

QatScript ==
    <<[phase |-> "qat", call |-> "create_qat_model"],
      [phase |-> "qat", call |-> "trainer.train"],
      [phase |-> "qat", call |-> "trainer.save_model"],
      [phase |-> "qat", call |-> "trainer.log_metrics"],
      [phase |-> "qat", call |-> "trainer.save_metrics"],
      [phase |-> "qat", call |-> "trainer.save_state"]>>

PtqScript ==
    <<[phase |-> "ptq", call |-> "trainer.model.eval"]>>
    \o (IF ptq_json = "present" THEN <<[phase |-> "ptq", call |-> "load_dataset"]>> ELSE <<>>)
    \o <<[phase |-> "ptq", call |-> "trainer.get_ptq_dataloader"]>>
    \o (IF quant_args.shift \/ quant_args.smooth
          THEN <<[phase |-> "ptq", call |-> "get_ptq_model_config"]>> ELSE <<>>)
    \o (IF quant_args.shift THEN <<[phase |-> "ptq", call |-> "apply_shift"]>> ELSE <<>>)
    \o (IF quant_args.smooth THEN <<[phase |-> "ptq", call |-> "apply_smooth"]>> ELSE <<>>)
    \o <<[phase |-> "ptq", call |-> "apply_ptq"]>>

EvalScript ==
    <<[phase |-> "eval", call |-> "trainer.evaluate"],
      [phase |-> "eval", call |-> "trainer.log_metrics"]>>

TrainArtifacts ==
    {[phase |-> "train", what |-> "model"], [phase |-> "train", what |-> "metrics"],
     [phase |-> "train", what |-> "trainer_state"]}

SequencerPcs == {"train", "train_persist", "qat", "qat_train", "qat_persist", "ptq",
                 "ptq_dataset", "ptq_dataloader", "shift", "smooth", "apply_ptq",
                 "eval", "done"}

BothPtqAndQat == quant_args.do_ptq /\ quant_args.do_qat
O2WithoutDtype ==
    /\ training_args.fp16_opt_level = "O2"
    /\ ~quant_args.do_ptq /\ ~training_args.fp16 /\ ~training_args.bf16
NoDatasetPath == data_args.dataset_name_or_path = None
ConfigurationError == BothPtqAndQat \/ O2WithoutDtype \/ NoDatasetPath

\* C1: a run with do_ptq and do_qat both set aborts with the conflict error
\* before anything else happens: no framework call at all, no model, tokenizer,
\* dataset or trainer, and no phase.
C1_ConflictAbortsBeforeModelLoad ==
    BothPtqAndQat =>
        /\ pc \in {"start", "error"}
        /\ pc = "error" => err = ConflictError
        /\ calls = <<>>
        /\ ~model.loaded /\ ~tokenizer.loaded /\ ~trainer.built
        /\ train_ds = <<>> /\ dev_ds = <<>> /\ saved = {}

C1_Witness ==
    /\ BothPtqAndQat /\ pc = "error" /\ err = ConflictError
    /\ training_args.do_train /\ training_args.do_eval /\ model_args.lora

\* C2: the calls of the phases appear in the order train, QAT, PTQ, evaluate, so
\* no phase starts after a later one started; each phase is entered at most
\* once; and a phase makes calls only if its own flag is set.
C2_PhaseOrder ==
    /\ \A i, j \in 1..Len(calls) :
         i < j => PhaseRank(calls[i].phase) <= PhaseRank(calls[j].phase)
    /\ Count("train", "trainer.train") <= 1
    /\ Count("qat", "create_qat_model") <= 1
    /\ Count("ptq", "trainer.model.eval") <= 1
    /\ Count("eval", "trainer.evaluate") <= 1
    /\ CallsIn("train") # <<>> => training_args.do_train
    /\ CallsIn("qat") # <<>> => quant_args.do_qat
    /\ CallsIn("ptq") # <<>> => quant_args.do_ptq
    /\ CallsIn("eval") # <<>> => training_args.do_eval

C2_Witness ==
    /\ pc = "done"
    /\ CallsIn("train") # <<>> /\ CallsIn("ptq") # <<>> /\ CallsIn("eval") # <<>>

\* C3: with do_train alone, the sequencer makes exactly the calls of the train
\* step and stops: at every moment the phase calls are a prefix of the train
\* step, at the end they are the whole of it, nothing fails once the trainer is
\* built, and no QAT, PTQ or evaluation effect is ever seen.
C3_TrainOnly ==
    (/\ training_args.do_train /\ ~training_args.do_eval
     /\ ~quant_args.do_qat /\ ~quant_args.do_ptq) =>
        /\ IsPrefix(PhaseCalls, TrainScript)
        /\ trainer.built => pc # "error"
        /\ pc = "done" => PhaseCalls = TrainScript /\ saved = TrainArtifacts
        /\ pc = "done" => ~ENABLED Next
        /\ trainer.built => trainer.model = model /\ trainer.training
        /\ ptq_ds = <<>> /\ ptq_dataloader = <<>> /\ ptq_json = "unchecked"
        /\ ptq_model_config = Unbound /\ logger = <<>>

C3_Witness ==
    /\ training_args.do_train /\ ~training_args.do_eval
    /\ ~quant_args.do_qat /\ ~quant_args.do_ptq
    /\ pc = "done" /\ PhaseCalls = TrainScript

\* C4: when PTQ is requested and the model is LoRA-wrapped (alone or over a
\* prefix wrapper, built fresh or loaded from lora_path), the PTQ phase fails
\* with the not-implemented error before anything of it runs: the model stays
\* in training mode, no calibration set is resolved, no PTQ call is made, and
\* the run never gets past the PTQ guard.
C4_PtqOnLoRAFails ==
    (quant_args.do_ptq /\ model_args.lora) =>
        /\ CallsIn("ptq") = <<>>
        /\ trainer.training
        /\ ptq_json = "unchecked" /\ ptq_ds = <<>> /\ ptq_dataloader = <<>>
        /\ logger = <<>>
        /\ pc \notin {"ptq_dataset", "ptq_dataloader", "shift", "smooth", "apply_ptq",
                      "eval", "done"}
        /\ (pc = "error" /\ trainer.built) => err = PtqLoRAError

C4_Witness ==
    /\ quant_args.do_ptq /\ model_args.lora /\ model_args.prefix_tuning
    /\ model_args.lora_path # None
    /\ pc = "error" /\ err = PtqLoRAError

DtypeDecided == dtype # Unbound \/ err = DtypeError

\* C5 as stated: every row of the table holds for every combination of the four
\* inputs, the row "O2 and bf16 gives bfloat16" included.
C5_AsStated ==
    DtypeDecided =>
        LET O2 == training_args.fp16_opt_level = "O2"
            ptq == quant_args.do_ptq
            fp16 == training_args.fp16
            bf16 == training_args.bf16
        IN /\ (O2 /\ ptq) => dtype = "float32"
           /\ (O2 /\ fp16 /\ ~ptq) => dtype = "float16"
           /\ (O2 /\ bf16) => dtype = "bfloat16"
           /\ (O2 /\ ~fp16 /\ ~bf16 /\ ~ptq) => (err = DtypeError /\ dtype = Unbound)
           /\ ~O2 => dtype = "float32"

\* C5: the dtype is decided by (fp16_opt_level, do_ptq, fp16, bf16) alone: O2
\* and do_ptq gives float32; O2 and fp16 without ptq gives float16; O2 and bf16
\* with neither ptq nor fp16 gives bfloat16; O2 with none of the three is the
\* dtype error; anything but O2 gives float32.
C5_DtypePolicy ==
    DtypeDecided =>
        LET O2 == training_args.fp16_opt_level = "O2"
            ptq == quant_args.do_ptq
            fp16 == training_args.fp16
            bf16 == training_args.bf16
        IN /\ (O2 /\ ptq) => dtype = "float32"
           /\ (O2 /\ fp16 /\ ~ptq) => dtype = "float16"
           /\ (O2 /\ bf16 /\ ~ptq /\ ~fp16) => dtype = "bfloat16"
           /\ (O2 /\ ~fp16 /\ ~bf16 /\ ~ptq) => (err = DtypeError /\ dtype = Unbound)
           /\ ~O2 => dtype = "float32"
           /\ (dtype = Unbound) = (err = DtypeError)

C5_Witness ==
    /\ training_args.fp16_opt_level = "O2" /\ training_args.bf16
    /\ ~training_args.fp16 /\ ~quant_args.do_ptq
    /\ dtype = "bfloat16" /\ model.loaded

\* C6: in a run whose configuration has one of the fatal errors (PTQ with QAT,
\* O2 without a dtype, no dataset path), no phase ever makes a call, the trainer
\* is never built and the sequencer is never entered.
C6_ConfigErrorsBeforePhases ==
    ConfigurationError =>
        /\ PhaseCalls = <<>>
        /\ ~trainer.built
        /\ saved = {}
        /\ pc \notin SequencerPcs
        /\ pc = "error" => err \in {ConflictError, DtypeError, DatasetError,
                                    "NotImplementedError: Only llama and gpt support flash_attention."}

C6_Witness ==
    /\ NoDatasetPath /\ ~BothPtqAndQat /\ ~O2WithoutDtype
    /\ training_args.do_train /\ training_args.do_eval
    /\ pc = "error" /\ err = DatasetError /\ model.loaded

\* C7: once the PTQ dataloader is built, without ptq.json it holds the very
\* dataset the trainer trains on, converted, and the fallback notice is logged;
\* with ptq.json it holds the converted ptq split and nothing is logged.
C7_PtqCalibrationDataset ==
    ptq_dataloader # <<>> =>
        /\ ptq_json = "absent" =>
             /\ ptq_dataloader = train_ds
             /\ ptq_dataloader = trainer.train_dataset
             /\ \A i \in 1..Len(ptq_dataloader) :
                  ptq_dataloader[i].split = "train" /\ ptq_dataloader[i].converted
             /\ logger = <<PtqNotice>>
             /\ ~Made("ptq", "load_dataset")
        /\ ptq_json = "present" =>
             /\ \A i \in 1..Len(ptq_dataloader) :
                  ptq_dataloader[i].split = "ptq" /\ ptq_dataloader[i].converted
             /\ Len(ptq_dataloader) = DsLen
             /\ logger = <<>>
             /\ Made("ptq", "load_dataset")
        /\ ptq_json # "unchecked"

C7_Witness ==
    /\ ptq_json = "absent" /\ ptq_dataloader = train_ds /\ train_ds # <<>>
    /\ logger = <<PtqNotice>> /\ pc = "done"

\* a run the set-up cannot stop, on one device, without LoRA
ValidSingleDeviceNoLoRA ==
    /\ ~O2WithoutDtype /\ ~NoDatasetPath
    /\ training_args.tensor_parallel_degree = 1
    /\ ~model_args.lora
    /\ ~(model.loaded /\ model_args.use_flash_attention
         /\ model.base_model_prefix \notin {"llama", "gpt"})

SelectedScript ==
    (IF training_args.do_train THEN TrainScript ELSE <<>>)
    \o (IF quant_args.do_qat THEN QatScript ELSE <<>>)
    \o (IF quant_args.do_ptq THEN PtqScript ELSE <<>>)
    \o (IF training_args.do_eval THEN EvalScript ELSE <<>>)

\* C8 as stated: for every subset of the four flags, a valid single-device run
\* without LoRA ends having executed exactly the selected phases, in order.
C8_AsStated ==
    ValidSingleDeviceNoLoRA =>
        /\ pc # "error"
        /\ pc = "done" => PhaseCalls = SelectedScript

\* C8: for every subset of the four flags that does not hold both QAT and PTQ,
\* a valid single-device run without LoRA never fails and ends having executed
\* exactly the selected phases, each to its end, in the fixed order.
C8_FlagGatedPhases ==
    (ValidSingleDeviceNoLoRA /\ ~BothPtqAndQat) =>
        /\ pc # "error"
        /\ pc = "done" => PhaseCalls = SelectedScript
        /\ pc \notin {"done", "error"} => ENABLED Next

C8_Witness ==
    /\ ValidSingleDeviceNoLoRA /\ ~BothPtqAndQat
    /\ training_args.do_train /\ quant_args.do_qat /\ training_args.do_eval
    /\ pc = "done" /\ PhaseCalls = SelectedScript

QatOnManyDevices == quant_args.do_qat /\ training_args.tensor_parallel_degree > 1

QatNeverRuns ==
    /\ CallsIn("qat") = <<>>
    /\ CallsIn("eval") = <<>>
    /\ trainer.built => trainer.model = model
    /\ \A a \in saved : a.phase = "train"
    /\ pc \notin {"qat_train", "qat_persist", "ptq", "eval", "done"}

FailedAtQatEntry ==
    /\ err = QatDeviceError
    /\ training_args.do_train => (CallsIn("train") = TrainScript /\ saved = TrainArtifacts)
    /\ ~training_args.do_train => (CallsIn("train") = <<>> /\ saved = {})

\* C9 as stated: whenever do_qat is set with more than one device, the run's
\* failure is the one at the entry of the QAT phase, with an earlier train
\* phase completed.
C9_AsStated ==
    QatOnManyDevices =>
        /\ QatNeverRuns
        /\ pc = "error" => FailedAtQatEntry

\* C9: when do_qat is set with more than one device and the run gets as far as
\* the phase sequencer (no error stopped it before the trainer was built), it
\* fails at the entry of the QAT phase: no QAT model, QAT training or QAT save,
\* no evaluation, and what the train phase persisted is exactly what is there.
\* Without reaching the sequencer, the QAT and evaluation effects are absent too.
C9_QatMultiDeviceFails ==
    QatOnManyDevices =>
        /\ QatNeverRuns
        /\ (pc = "error" /\ trainer.built) => FailedAtQatEntry
        /\ (pc = "qat") =>
              saved = (IF training_args.do_train THEN TrainArtifacts ELSE {})

C9_Witness ==
    /\ QatOnManyDevices /\ training_args.do_train /\ training_args.do_eval
    /\ pc = "error" /\ err = QatDeviceError /\ saved = TrainArtifacts

\* C10: a PTQ phase past the LoRA check makes its calls in the order evaluation
\* mode, calibration data, dataloader, model config (iff shift or smooth),
\* shift (iff shift), smooth (iff smooth), PTQ transform; the transform runs
\* once and last; and no pass ever finds ptq_model_config unassigned.
C10_PtqStepOrder ==
    /\ err # UnboundError
    /\ ptq_json = "unchecked" =>
         CallsIn("ptq") \in {<<>>, <<[phase |-> "ptq", call |-> "trainer.model.eval"]>>}
    /\ ptq_json # "unchecked" => IsPrefix(CallsIn("ptq"), PtqScript)
    /\ (quant_args.do_ptq /\ pc \in {"eval", "done"}) => CallsIn("ptq") = PtqScript
    /\ Count("ptq", "apply_ptq") <= 1
    /\ (Made("ptq", "apply_shift") \/ Made("ptq", "apply_smooth")) =>
         /\ ptq_model_config # Unbound
         /\ Made("ptq", "get_ptq_model_config")
    /\ Made("ptq", "apply_shift") => quant_args.shift
    /\ Made("ptq", "apply_smooth") => quant_args.smooth

C10_Witness ==
    /\ ~quant_args.shift /\ quant_args.smooth /\ ptq_json = "present"
    /\ pc = "done" /\ CallsIn("ptq") = PtqScript
====
